---- MODULE Spec2Model ----
(***************************************************************************)
(* State-machine model of the two allocators of malloc-tutorial:           *)
(*   - MyMalloc.cc : class Allocator and its C interface                   *)
(*                   (malloc / free / realloc / calloc / objectSize);      *)
(*   - malloc.c    : the block_meta list allocator (malloc / free).        *)
(* Memory is a byte array; size_t, int and pointers are WordBits wide      *)
(* (a scaled-down machine word), stored little-endian in slots of the      *)
(* real layout width, so that wrap-around and overlapping stores behave    *)
(* as they do in the build.                                                *)
(***************************************************************************)
EXTENDS Integers, Sequences, FiniteSets, TLC

\* ------------------------------------------------------------ bounds
\* Width of size_t / pointers in the model (the build has 32 or 64).
WordBits == 8
\* Bytes the operating system is willing to give to the data segment.
MaxHeap == 64
\* Calls per run (caps the call counters).
MaxCalls == 3
\* Bytes the operating system is willing to give to malloc.c's data segment.
CMaxHeap == 88

\* ------------------------------------------------------------ machine
Mod == 2 ^ WordBits

Wrap(x) == x % Mod

\* size_t -> intptr_t (sbrk takes a signed increment)
ToSigned(x) == IF x >= Mod \div 2 THEN x - Mod ELSE x

\* x & ~7
AlignDown8(x) == x - (x % 8)

NULL == 0

ObjFree == 0

ObjAllocated == 1

\* sizeof(ObjectHeader): int _flags at offset 0, size_t _objectSize at
\* offset FlagsSlot (LP64 layout: 4 bytes of flags, 4 of padding, 8 of size).
HeaderSize == 16

FlagsSlot == 8

IntBytes == 4

SizeTBytes == 8

\* The initial program break (start of the data segment the process may use).
HeapBase == 16

HeapLimit == HeapBase + MaxHeap

\* Memory is kept as rows of RowBytes bytes: m[r][c] is the byte at address
\* HeapBase + (r - 1) * RowBytes + c - 1.
RowBytes == 8

Rows == 1 .. ((MaxHeap + RowBytes - 1) \div RowBytes)

Cols == 1 .. RowBytes

AddrOf(r, c) == HeapBase + (r - 1) * RowBytes + c - 1

ByteAt(m, a) == m[((a - HeapBase) \div RowBytes) + 1][((a - HeapBase) % RowBytes) + 1]

\* Memory as the kernel hands it out: all zero.
ZeroMemory == [r \in Rows |-> [c \in Cols |-> 0]]

\* (void *) -1, the failure value of sbrk
SbrkFailed == Mod - 1

\* ------------------------------------------------------------ memory
\* Byte i of the little-endian image of v (values are below 2^31).
ByteOf(v, i) == IF i < 4 THEN (v \div (256 ^ i)) % 256 ELSE 0

\* Store an n-byte little-endian scalar v at address a.
Store(m, a, n, v) ==
  [r \in DOMAIN m |-> [c \in Cols |->
     IF AddrOf(r, c) >= a /\ AddrOf(r, c) < a + n
     THEN ByteOf(v, AddrOf(r, c) - a) ELSE m[r][c]]]

\* Load a scalar: the low WordBits bits of the little-endian image at a.
Load(m, a) == (ByteAt(m, a) + 256 * ByteAt(m, a + 1)) % Mod

\* An access to [a, a+n) with the break at b and the segment's limit at lim:
\*   "ok"    every byte is below the break;
\*   "fault" some byte lies outside the data segment the OS can map;
\*   "ub"    the bytes lie between the break and the limit: the page may or
\*           may not be mapped, so the access may fault or go through.
Access(a, n, b, lim) ==
  IF n = 0 THEN "ok"
  ELSE IF a < HeapBase \/ a + n > lim THEN "fault"
  ELSE IF a + n <= b THEN "ok"
  ELSE "ub"

\* Whether the access goes through, given the choice made for the "ub" case.
Goes(a, n, b, lim, fault) ==
  LET k == Access(a, n, b, lim) IN k = "ok" \/ (k = "ub" /\ ~fault)

\* memcpy(dst, src, n): the bytes are copied one by one, in ascending (up)
\* or descending address order.  The two orders agree unless the regions
\* overlap, which memcpy leaves undefined; then a byte read after it was
\* written carries the copied value on.
CopySource(dst, src, n, i, up) ==
  IF up
  THEN IF dst > src THEN src + (i % (dst - src)) ELSE src + i
  ELSE IF src > dst THEN src + i + (src - dst) * ((n - 1 - i) \div (src - dst))
       ELSE src + i

memcpy(m, dst, src, n, up) ==
  [r \in DOMAIN m |-> [c \in Cols |->
     IF AddrOf(r, c) >= dst /\ AddrOf(r, c) < dst + n
     THEN ByteAt(m, CopySource(dst, src, n, AddrOf(r, c) - dst, up))
     ELSE m[r][c]]]

\* memset(dst, c, n)
memset(m, dst, c, n) ==
  [r \in DOMAIN m |-> [col \in Cols |->
     IF AddrOf(r, col) >= dst /\ AddrOf(r, col) < dst + n THEN c ELSE m[r][col]]]

\* ------------------------------------------------------------ state
VARIABLES
  brk,            \* the program break (end of the data segment)
  mem,            \* the bytes of the data segment
  _heapSize,      \* Allocator::_heapSize
  _initialized,   \* Allocator::_initialized
  _mallocCalls,   \* Allocator::_mallocCalls
  _freeCalls,     \* Allocator::_freeCalls
  _reallocCalls,  \* Allocator::_reallocCalls
  _callocCalls,   \* Allocator::_callocCalls
  crashed,        \* the process was killed by a faulting access
  live,           \* the caller's pointers: [p |-> pointer, n |-> bytes asked]
  last            \* the last call: operation, arguments, result

avars == <<brk, mem, _heapSize, _initialized, _mallocCalls, _freeCalls,
           _reallocCalls, _callocCalls, crashed, live, last>>


\* State of the malloc.c process.
VARIABLES
  cur_brk,      \* the program break of the malloc.c process
  cmem,         \* the bytes of its data segment
  global_base,  \* void *global_base
  chalt,        \* "run", or how the process ended: "fault" or "hang"
  clive,        \* the caller's pointers
  clast         \* the last call: operation, argument, result

cvars == <<cur_brk, cmem, global_base, chalt, clive, clast>>

\* Threads calling into the Allocator of MyMalloc.cc.
VARIABLES
  th,      \* per thread: where it is in its call, the call, its registers
  issued   \* calls issued so far, per entry point

tvars == <<th, issued>>

\* Threads calling into malloc.c.
VARIABLES
  cth,     \* per thread: where it is in its call, the call, its locals
  cheld    \* allocations handed out and not yet freed: [t, p, n]

ctvars == <<cth, cheld>>

vars == <<avars, cvars, tvars, ctvars>>

\* Request sizes: ordinary ones, and ones near the top of size_t.
SmallSizes == {0, 1, 9}

HugeSizes == {Mod - 1, Mod - 15, Mod - 23, Mod - 40}

Sizes == SmallSizes \cup HugeSizes

\* calloc arguments <<nelem, elsize>>: products that fit and products that
\* do not fit in size_t.
CallocArgs == {<<1, 1>>, <<3, 3>>, <<Mod \div 2, 2>>, <<(Mod \div 2) + 1, 2>>,
               <<1, Mod - 1>>}

\* The byte the caller stores at offset i of a payload.
Pattern(i) == 1 + (i % 7)

NoCall == [op |-> "none", a1 |-> 0, a2 |-> 0, ret |-> NULL, failed |-> FALSE,
           copied |-> 0]

Calls == _mallocCalls + _freeCalls + _reallocCalls + _callocCalls

\* ------------------------------------------------------------ Allocator
\* sbrk(increment) with the break at b; oom: the OS has no memory to give.
sbrk(b, increment, oom) ==
  LET nb == b + ToSigned(increment) IN
  IF increment = 0 THEN [ret |-> b, brk |-> b, failed |-> FALSE]
  ELSE IF ~oom /\ nb >= HeapBase /\ nb <= HeapLimit
       THEN [ret |-> b, brk |-> nb, failed |-> FALSE]
       ELSE [ret |-> SbrkFailed, brk |-> b, failed |-> TRUE]

\* Allocator::getMemoryFromOS
getMemoryFromOS(size, oom) ==
  LET r == sbrk(brk, size, oom) IN
  [heapSize |-> Wrap(_heapSize + size), ret |-> r.ret, brk |-> r.brk,
   failed |-> r.failed]

\* The total size allocateObject computes for a request.
TotalSize(size) == AlignDown8(Wrap(size + HeaderSize + 7))

\* The two stores of allocateObject, o->_objectSize = totalSize and
\* o->_flags = ObjAllocated (the padding after _flags is not written).
StoreHeader(m, o, totalSize, flags) ==
  [r \in DOMAIN m |-> [c \in Cols |->
     IF AddrOf(r, c) >= o + FlagsSlot /\ AddrOf(r, c) < o + FlagsSlot + SizeTBytes
     THEN ByteOf(totalSize, AddrOf(r, c) - o - FlagsSlot)
     ELSE IF AddrOf(r, c) >= o /\ AddrOf(r, c) < o + IntBytes
     THEN ByteOf(flags, AddrOf(r, c) - o)
     ELSE m[r][c]]]

\* allocateObject from the pointer o that getMemoryFromOS returned, with the
\* break at b: the header stores and the returned pointer.
initObject(m, o, b, totalSize, heapSize, failed, fault) ==
  LET ok == /\ Goes(o + FlagsSlot, SizeTBytes, b, HeapLimit, fault)
            /\ Goes(o, IntBytes, b, HeapLimit, fault)
  IN [ brk |-> b,
       heapSize |-> heapSize,
       failed |-> failed,
       crashed |-> ~ok,
       mem |-> IF ok THEN StoreHeader(m, o, totalSize, ObjAllocated) ELSE m,
       ret |-> IF ok THEN Wrap(o + HeaderSize) ELSE NULL ]

\* Allocator::allocateObject: the state it leaves and the pointer it returns.
allocateObject(size, oom, fault) ==
  LET g == getMemoryFromOS(TotalSize(size), oom) IN
  initObject(mem, g.ret, g.brk, TotalSize(size), g.heapSize, g.failed, fault)

\* Allocator::freeObject: the simple allocator does nothing.
freeObject(m, ptr) == m

\* Allocator::objectSize, reading memory m.
objectSize(m, ptr) == Wrap(Load(m, ptr - HeaderSize + FlagsSlot) - HeaderSize)

\* ------------------------------------------------------------ C interface
AInit ==
  /\ brk = HeapBase
  /\ mem = ZeroMemory
  /\ _heapSize = 0
  /\ _initialized = 0
  /\ _mallocCalls = 0
  /\ _freeCalls = 0
  /\ _reallocCalls = 0
  /\ _callocCalls = 0
  /\ crashed = FALSE
  /\ live = {}
  /\ last = NoCall

\* malloc(size)
Malloc(size, oom, fault) ==
  /\ ~crashed
  /\ Calls < MaxCalls
  /\ \E a \in {allocateObject(size, oom, fault)} :
     /\ _mallocCalls' = _mallocCalls + 1
     /\ _initialized' = 1
     /\ brk' = a.brk
     /\ _heapSize' = a.heapSize
     /\ mem' = a.mem
     /\ crashed' = a.crashed
     /\ live' = IF a.crashed THEN live ELSE live \cup {[p |-> a.ret, n |-> size]}
     /\ last' = [op |-> "malloc", a1 |-> size, a2 |-> 0, ret |-> a.ret,
                 failed |-> a.failed, copied |-> 0]
     /\ UNCHANGED <<_freeCalls, _reallocCalls, _callocCalls, cvars, tvars, ctvars>>

\* free(ptr): ptr is NULL or one of the caller's pointers.
Free(ptr) ==
  /\ ~crashed
  /\ Calls < MaxCalls
  /\ _freeCalls' = _freeCalls + 1
  /\ mem' = IF ptr = NULL THEN mem ELSE freeObject(mem, ptr)
  /\ live' = {l \in live : l.p # ptr}
  /\ last' = [op |-> "free", a1 |-> ptr, a2 |-> 0, ret |-> NULL,
              failed |-> FALSE, copied |-> 0]
  /\ UNCHANGED <<brk, _heapSize, _initialized, _mallocCalls, _reallocCalls,
                 _callocCalls, crashed, cvars, tvars, ctvars>>

\* realloc as it would be without its test of ptr != 0: objectSize(ptr) and
\* the copy run for a null ptr too.
reallocBodyNoNullTest(a, ptr, size, fault, up) ==
  LET newptr == a.ret
      sizeAt == ptr - HeaderSize + FlagsSlot
      readOk == Goes(sizeAt, SizeTBytes, a.brk, HeapLimit, fault)
      old == IF readOk THEN objectSize(a.mem, ptr) ELSE 0
      sizeToCopy == IF old > size THEN size ELSE old
      copyOk == /\ readOk
                /\ Goes(ptr, sizeToCopy, a.brk, HeapLimit, fault)
                /\ Goes(newptr, sizeToCopy, a.brk, HeapLimit, fault)
  IN IF a.crashed
     THEN [brk |-> a.brk, heapSize |-> a.heapSize, failed |-> a.failed,
           crashed |-> a.crashed, mem |-> a.mem, ret |-> a.ret, copied |-> 0]
     ELSE IF ~copyOk
     THEN [brk |-> a.brk, heapSize |-> a.heapSize, failed |-> a.failed,
           crashed |-> TRUE, mem |-> a.mem, ret |-> NULL, copied |-> sizeToCopy]
     ELSE [brk |-> a.brk, heapSize |-> a.heapSize, failed |-> a.failed,
           crashed |-> FALSE,
           mem |-> freeObject(memcpy(a.mem, newptr, ptr, sizeToCopy, up), ptr),
           ret |-> newptr, copied |-> sizeToCopy]

\* realloc(ptr, size) after its call of allocateObject, which left a: the
\* state it leaves, the pointer it returns and the number of bytes it copies.
reallocBody(a, ptr, size, fault, up) ==
  LET newptr == a.ret
      sizeAt == ptr - HeaderSize + FlagsSlot
      readOk == Goes(sizeAt, SizeTBytes, a.brk, HeapLimit, fault)
      old == IF readOk THEN objectSize(a.mem, ptr) ELSE 0
      sizeToCopy == IF old > size THEN size ELSE old
      copyOk == /\ readOk
                /\ Goes(ptr, sizeToCopy, a.brk, HeapLimit, fault)
                /\ Goes(newptr, sizeToCopy, a.brk, HeapLimit, fault)
  IN IF a.crashed \/ ptr = NULL
     THEN [brk |-> a.brk, heapSize |-> a.heapSize, failed |-> a.failed,
           crashed |-> a.crashed, mem |-> a.mem, ret |-> a.ret, copied |-> 0]
     ELSE IF ~copyOk
     THEN [brk |-> a.brk, heapSize |-> a.heapSize, failed |-> a.failed,
           crashed |-> TRUE, mem |-> a.mem, ret |-> NULL, copied |-> sizeToCopy]
     ELSE [brk |-> a.brk, heapSize |-> a.heapSize, failed |-> a.failed,
           crashed |-> FALSE,
           mem |-> freeObject(memcpy(a.mem, newptr, ptr, sizeToCopy, up), ptr),
           ret |-> newptr, copied |-> sizeToCopy]

Realloc(ptr, size, oom, fault, up) ==
  /\ ~crashed
  /\ Calls < MaxCalls
  /\ \E a \in {allocateObject(size, oom, fault)} :
     \E r \in {reallocBody(a, ptr, size, fault, up)} :
     /\ _reallocCalls' = _reallocCalls + 1
     /\ _initialized' = 1
     /\ brk' = r.brk
     /\ _heapSize' = r.heapSize
     /\ mem' = r.mem
     /\ crashed' = r.crashed
     /\ live' = IF r.crashed THEN live
                ELSE {l \in live : l.p # ptr} \cup {[p |-> r.ret, n |-> size]}
     /\ last' = [op |-> "realloc", a1 |-> ptr, a2 |-> size, ret |-> r.ret,
                 failed |-> r.failed, copied |-> r.copied]
     /\ UNCHANGED <<_mallocCalls, _freeCalls, _callocCalls, cvars, tvars, ctvars>>

\* calloc(nelem, elsize) after its call of allocateObject, which left a.
callocBody(a, size, fault) ==
  LET ptr == a.ret IN
  IF a.crashed \/ ptr = NULL THEN a
  ELSE IF ~Goes(ptr, size, a.brk, HeapLimit, fault)
  THEN [a EXCEPT !.crashed = TRUE, !.ret = NULL]
  ELSE [a EXCEPT !.mem = memset(a.mem, ptr, 0, size)]

Calloc(nelem, elsize, oom, fault) ==
  /\ ~crashed
  /\ Calls < MaxCalls
  /\ \E size \in {Wrap(nelem * elsize)} :
     \E a \in {allocateObject(size, oom, fault)} :
     \E r \in {callocBody(a, size, fault)} :
     /\ _callocCalls' = _callocCalls + 1
     /\ _initialized' = 1
     /\ brk' = r.brk
     /\ _heapSize' = r.heapSize
     /\ mem' = r.mem
     /\ crashed' = r.crashed
     /\ live' = IF r.crashed THEN live
                ELSE live \cup {[p |-> r.ret, n |-> nelem * elsize]}
     /\ last' = [op |-> "calloc", a1 |-> nelem, a2 |-> elsize, ret |-> r.ret,
                 failed |-> r.failed, copied |-> 0]
     /\ UNCHANGED <<_mallocCalls, _freeCalls, _reallocCalls, cvars, tvars, ctvars>>

\* The caller fills the bytes it asked for (a request no larger than the
\* whole heap) with its pattern.
WritePayload(l, fault) ==
  /\ ~crashed
  /\ l \in live
  /\ l.n > 0
  /\ l.n <= MaxHeap
  /\ last.op # "write"
  /\ crashed' = ~Goes(l.p, l.n, brk, HeapLimit, fault)
  /\ mem' = IF crashed' THEN mem
            ELSE [r \in DOMAIN mem |-> [c \in Cols |->
                    IF AddrOf(r, c) >= l.p /\ AddrOf(r, c) < l.p + l.n
                    THEN Pattern(AddrOf(r, c) - l.p) ELSE mem[r][c]]]
  /\ last' = [op |-> "write", a1 |-> l.p, a2 |-> l.n, ret |-> NULL,
              failed |-> FALSE, copied |-> 0]
  /\ UNCHANGED <<brk, _heapSize, _initialized, _mallocCalls, _freeCalls,
                 _reallocCalls, _callocCalls, live, cvars, tvars, ctvars>>

Next ==
  \/ \E size \in Sizes, oom \in BOOLEAN, fault \in BOOLEAN :
       Malloc(size, oom, fault)
  \/ \E ptr \in {NULL} \cup {l.p : l \in live} : Free(ptr)
  \/ \E ptr \in {NULL} \cup {l.p : l \in live}, size \in Sizes,
        oom \in BOOLEAN, fault \in BOOLEAN, up \in BOOLEAN :
       Realloc(ptr, size, oom, fault, up)
  \/ \E c \in CallocArgs, oom \in BOOLEAN, fault \in BOOLEAN :
       Calloc(c[1], c[2], oom, fault)
  \/ \E l \in live, fault \in BOOLEAN : WritePayload(l, fault)


\* ------------------------------------------------------------ malloc.c
CLimit == HeapBase + CMaxHeap

CRows == 1 .. ((CMaxHeap + RowBytes - 1) \div RowBytes)

\* struct block_meta on i386: int size; block_meta *next; int free; int magic.
META_SIZE == 16

SizeOff == 0

NextOff == 4

FreeOff == 8

MagicOff == 12

MagicNew == 305419896

MagicReused == 2004318071

MagicFreed == 1431655765

\* The fields of the block_meta at address b.
MetaSize(m, b) == ToSigned(Load(m, b + SizeOff))

MetaNext(m, b) == Load(m, b + NextOff)

MetaFree(m, b) == Load(m, b + FreeOff)

\* Request sizes of malloc(int): zero, negative, ordinary (the largest one
\* leaves room for a header and more when a small request reuses its
\* block), INT_MAX.
CSizes == {0, Mod - 1, 4, 8, 24, (Mod \div 2) - 1}

\* sbrk(size) of malloc.c: p = brk(0); brk(p + size); return p.  The kernel
\* leaves the break where it is when it refuses, and sbrk returns p anyway.
\* brk() has no return statement; it is taken to return what the system
\* call left in eax, the break, as the unoptimised i386 build does.
c_sbrk(b, size, refuse) ==
  LET nb == b + ToSigned(size) IN
  [ret |-> b,
   brk |-> IF ~refuse /\ nb >= HeapBase /\ nb <= CLimit THEN nb ELSE b]

\* find_free_block: the block found (or NULL), the value left in *last, and
\* how the loop went ("ok", "fault" on an unmapped node, "hang" when it does
\* not end within fuel steps).
RECURSIVE find_free_block(_, _, _, _, _, _, _)
find_free_block(m, b, current, lastp, size, fault, fuel) ==
  IF current = NULL THEN [block |-> NULL, last |-> lastp, st |-> "ok"]
  ELSE IF fuel = 0 THEN [block |-> NULL, last |-> lastp, st |-> "hang"]
  ELSE IF ~Goes(current, META_SIZE, b, CLimit, fault)
  THEN [block |-> NULL, last |-> lastp, st |-> "fault"]
  ELSE IF MetaFree(m, current) # 0 /\ MetaSize(m, current) >= ToSigned(size)
  THEN [block |-> current, last |-> lastp, st |-> "ok"]
  ELSE find_free_block(m, b, MetaNext(m, current), current, size, fault, fuel - 1)

\* The stores of request_space as they would be without last->next = block.
StoreNewBlockNoLink(m, lastp, block, size) ==
  [r \in DOMAIN m |-> [c \in Cols |->
     LET x == AddrOf(r, c) IN
     IF x >= block /\ x < block + META_SIZE
     THEN IF x < block + NextOff THEN ByteOf(size, x - block - SizeOff)
          ELSE IF x < block + FreeOff THEN ByteOf(NULL, x - block - NextOff)
          ELSE IF x < block + MagicOff THEN ByteOf(0, x - block - FreeOff)
          ELSE ByteOf(MagicNew, x - block - MagicOff)
     ELSE m[r][c]]]

\* The stores of request_space: last->next = block (when last is not NULL),
\* then block->size, block->next, block->free, block->magic.
StoreNewBlock(m, lastp, block, size) ==
  [r \in DOMAIN m |-> [c \in Cols |->
     LET x == AddrOf(r, c) IN
     IF x >= block /\ x < block + META_SIZE
     THEN IF x < block + NextOff THEN ByteOf(size, x - block - SizeOff)
          ELSE IF x < block + FreeOff THEN ByteOf(NULL, x - block - NextOff)
          ELSE IF x < block + MagicOff THEN ByteOf(0, x - block - FreeOff)
          ELSE ByteOf(MagicNew, x - block - MagicOff)
     ELSE IF lastp # NULL /\ x >= lastp + NextOff /\ x < lastp + NextOff + IntBytes
     THEN ByteOf(block, x - lastp - NextOff)
     ELSE m[r][c]]]

\* request_space(last, size): sbrk never returns (void *) -1 here, so the
\* failure branch is never taken.
request_space(m, b, lastp, size, refuse, fault) ==
  LET block == c_sbrk(b, 0, refuse).ret
      s == c_sbrk(b, Wrap(size + META_SIZE), refuse)
      ok == /\ s.ret # SbrkFailed
            /\ lastp = NULL \/ Goes(lastp + NextOff, IntBytes, s.brk, CLimit, fault)
            /\ Goes(block, META_SIZE, s.brk, CLimit, fault)
  IN [brk |-> s.brk,
      block |-> IF s.ret = SbrkFailed THEN NULL ELSE block,
      st |-> IF ok \/ s.ret = SbrkFailed THEN "ok" ELSE "fault",
      mem |-> IF ok THEN StoreNewBlock(m, lastp, block, size) ELSE m]

\* The stores of a reuse (block->free = 0; block->magic = 0x77777777) and of
\* free (block_ptr->free = 1; block_ptr->magic = 0x55555555).
StoreFreeMagic(m, block, free, magic) ==
  [r \in DOMAIN m |-> [c \in Cols |->
     LET x == AddrOf(r, c) IN
     IF x >= block + FreeOff /\ x < block + MagicOff
     THEN ByteOf(free, x - block - FreeOff)
     ELSE IF x >= block + MagicOff /\ x < block + META_SIZE
     THEN ByteOf(magic, x - block - MagicOff)
     ELSE m[r][c]]]

\* malloc(size) once find_free_block returned f (f is not used on the first
\* call): the state it leaves and the pointer it returns.
mallocC(f, size, refuse, fault) ==
  IF ToSigned(size) <= 0
  THEN [brk |-> cur_brk, mem |-> cmem, base |-> global_base, ret |-> NULL, st |-> "ok"]
  ELSE IF global_base = NULL
  THEN LET r == request_space(cmem, cur_brk, NULL, size, refuse, fault) IN
       IF r.st # "ok" \/ r.block = NULL
       THEN [brk |-> r.brk, mem |-> r.mem, base |-> global_base, ret |-> NULL,
             st |-> r.st]
       ELSE [brk |-> r.brk, mem |-> r.mem, base |-> r.block,
             ret |-> r.block + META_SIZE, st |-> "ok"]
  ELSE IF f.st # "ok"
  THEN [brk |-> cur_brk, mem |-> cmem, base |-> global_base, ret |-> NULL, st |-> f.st]
  ELSE IF f.block = NULL
  THEN LET r == request_space(cmem, cur_brk, f.last, size, refuse, fault) IN
       [brk |-> r.brk, mem |-> r.mem, base |-> global_base,
        ret |-> IF r.st # "ok" \/ r.block = NULL THEN NULL ELSE r.block + META_SIZE,
        st |-> r.st]
  ELSE IF ~Goes(f.block + FreeOff, 2 * IntBytes, cur_brk, CLimit, fault)
  THEN [brk |-> cur_brk, mem |-> cmem, base |-> global_base, ret |-> NULL,
        st |-> "fault"]
  ELSE [brk |-> cur_brk, mem |-> StoreFreeMagic(cmem, f.block, 0, MagicReused),
        base |-> global_base, ret |-> f.block + META_SIZE, st |-> "ok"]

CInit ==
  /\ cur_brk = HeapBase
  /\ cmem = [r \in CRows |-> [c \in Cols |-> 0]]
  /\ global_base = NULL
  /\ chalt = "run"
  /\ clive = {}
  /\ clast = [op |-> "none", a1 |-> 0, ret |-> NULL]

CMalloc(size, refuse, fault) ==
  /\ chalt = "run"
  /\ \E f \in {IF global_base = NULL \/ ToSigned(size) <= 0
               THEN [block |-> NULL, last |-> NULL, st |-> "ok"]
               ELSE find_free_block(cmem, cur_brk, global_base, global_base,
                                    size, fault, CMaxHeap)} :
     \E r \in {mallocC(f, size, refuse, fault)} :
       /\ cur_brk' = r.brk
       /\ cmem' = r.mem
       /\ global_base' = r.base
       /\ chalt' = IF r.st = "ok" THEN "run" ELSE r.st
       /\ clive' = IF r.ret = NULL THEN clive ELSE clive \cup {r.ret}
       /\ clast' = [op |-> "malloc", a1 |-> size, ret |-> r.ret]
       /\ UNCHANGED <<avars, tvars, ctvars>>

\* free as it would be without its test of !ptr: the stores go through
\* get_block_ptr(ptr) for a null ptr too.
CFreeNoNullTest(ptr, fault) ==
  /\ chalt = "run"
  /\ \E ok \in {Goes(ptr - META_SIZE + FreeOff, 2 * IntBytes, cur_brk, CLimit, fault)} :
       /\ chalt' = IF ok THEN "run" ELSE "fault"
       /\ cmem' = IF ~ok THEN cmem
                  ELSE StoreFreeMagic(cmem, ptr - META_SIZE, 1, MagicFreed)
       /\ clive' = IF ok THEN clive \ {ptr} ELSE clive
       /\ clast' = [op |-> "free", a1 |-> ptr, ret |-> NULL]
       /\ UNCHANGED <<cur_brk, global_base, avars, tvars, ctvars>>

\* free(ptr): ptr is NULL or one of the caller's pointers.
CFree(ptr, fault) ==
  /\ chalt = "run"
  /\ \E ok \in {ptr = NULL
                \/ Goes(ptr - META_SIZE + FreeOff, 2 * IntBytes, cur_brk, CLimit, fault)} :
       /\ chalt' = IF ok THEN "run" ELSE "fault"
       /\ cmem' = IF ptr = NULL \/ ~ok THEN cmem
                  ELSE StoreFreeMagic(cmem, ptr - META_SIZE, 1, MagicFreed)
       /\ clive' = IF ok THEN clive \ {ptr} ELSE clive
       /\ clast' = [op |-> "free", a1 |-> ptr, ret |-> NULL]
       /\ UNCHANGED <<cur_brk, global_base, avars, tvars, ctvars>>

NextC ==
  \/ \E size \in CSizes, refuse \in BOOLEAN, fault \in BOOLEAN :
       CMalloc(size, refuse, fault)
  \/ \E ptr \in {NULL} \cup clive, fault \in BOOLEAN : CFree(ptr, fault)

\* ------------------------------------------------------------ threads, MyMalloc.cc
\* Threads of the process; the code takes no lock anywhere.
NThreads == 2

Threads == 1 .. NThreads

Idle == [pc |-> "idle", op |-> "none", a1 |-> 0, a2 |-> 0, reg |-> 0, o |-> 0]

TInit ==
  /\ th = [t \in Threads |-> Idle]
  /\ issued = [malloc |-> 0, free |-> 0, realloc |-> 0, calloc |-> 0]

Issued == issued.malloc + issued.free + issued.realloc + issued.calloc

\* The size a thread's call passes to allocateObject.
CallSize(c) == IF c.op = "calloc" THEN Wrap(c.a1 * c.a2) ELSE IF c.op = "realloc" THEN c.a2 ELSE c.a1

\* The counter an entry point increments.
Counter(op) ==
  IF op = "malloc" THEN _mallocCalls
  ELSE IF op = "free" THEN _freeCalls
  ELSE IF op = "realloc" THEN _reallocCalls
  ELSE _callocCalls

\* A thread enters malloc, free, realloc or calloc.  A pointer passed to free
\* or realloc leaves the caller's set with the call.
TCall(t, op, a1, a2) ==
  /\ ~crashed
  /\ th[t].pc = "idle"
  /\ Issued < MaxCalls
  /\ th' = [th EXCEPT ![t] = [pc |-> "load", op |-> op, a1 |-> a1, a2 |-> a2,
                              reg |-> 0, o |-> 0]]
  /\ issued' = [issued EXCEPT ![op] = @ + 1]
  /\ live' = IF op \in {"free", "realloc"} THEN {l \in live : l.p # a1} ELSE live
  /\ UNCHANGED <<brk, mem, _heapSize, _initialized, _mallocCalls, _freeCalls,
                 _reallocCalls, _callocCalls, crashed, last, cvars, ctvars>>

\* _xCalls++ : the load of the counter ...
TIncLoad(t) ==
  /\ ~crashed
  /\ th[t].pc = "load"
  /\ th' = [th EXCEPT ![t].reg = Counter(th[t].op), ![t].pc = "store"]
  /\ UNCHANGED <<avars, issued, cvars, ctvars>>

\* ... and the store of the incremented value.
TIncStore(t) ==
  /\ ~crashed
  /\ th[t].pc = "store"
  /\ _mallocCalls' = IF th[t].op = "malloc" THEN th[t].reg + 1 ELSE _mallocCalls
  /\ _freeCalls' = IF th[t].op = "free" THEN th[t].reg + 1 ELSE _freeCalls
  /\ _reallocCalls' = IF th[t].op = "realloc" THEN th[t].reg + 1 ELSE _reallocCalls
  /\ _callocCalls' = IF th[t].op = "calloc" THEN th[t].reg + 1 ELSE _callocCalls
  /\ th' = [th EXCEPT ![t].pc = IF th[t].op = "free" THEN "free" ELSE "hsload"]
  /\ UNCHANGED <<brk, mem, _heapSize, _initialized, crashed, live, last, issued,
                 cvars, ctvars>>

\* free(ptr) after the counter: freeObject does nothing.
TFree(t) ==
  /\ ~crashed
  /\ th[t].pc = "free"
  /\ mem' = IF th[t].a1 = NULL THEN mem ELSE freeObject(mem, th[t].a1)
  /\ th' = [th EXCEPT ![t] = Idle]
  /\ UNCHANGED <<brk, _heapSize, _initialized, _mallocCalls, _freeCalls,
                 _reallocCalls, _callocCalls, crashed, live, last, issued,
                 cvars, ctvars>>

\* allocateObject up to the load of _heapSize in getMemoryFromOS ...
THeapSizeLoad(t) ==
  /\ ~crashed
  /\ th[t].pc = "hsload"
  /\ _initialized' = 1
  /\ th' = [th EXCEPT ![t].reg = _heapSize, ![t].pc = "hsstore"]
  /\ UNCHANGED <<brk, mem, _heapSize, _mallocCalls, _freeCalls, _reallocCalls,
                 _callocCalls, crashed, live, last, issued, cvars, ctvars>>

\* ... the store of _heapSize += size ...
THeapSizeStore(t) ==
  /\ ~crashed
  /\ th[t].pc = "hsstore"
  /\ _heapSize' = Wrap(th[t].reg + TotalSize(CallSize(th[t])))
  /\ th' = [th EXCEPT ![t].pc = "sbrk"]
  /\ UNCHANGED <<brk, mem, _initialized, _mallocCalls, _freeCalls, _reallocCalls,
                 _callocCalls, crashed, live, last, issued, cvars, ctvars>>

\* ... and the call of sbrk.
TSbrk(t, oom) ==
  /\ ~crashed
  /\ th[t].pc = "sbrk"
  /\ \E r \in {sbrk(brk, TotalSize(CallSize(th[t])), oom)} :
       /\ brk' = r.brk
       /\ th' = [th EXCEPT ![t].o = r.ret, ![t].pc = "init"]
  /\ UNCHANGED <<mem, _heapSize, _initialized, _mallocCalls, _freeCalls,
                 _reallocCalls, _callocCalls, crashed, live, last, issued,
                 cvars, ctvars>>

\* The rest of the call: the header stores of allocateObject, then the copy
\* of realloc or the memset of calloc, and the return.
TFinish(t, fault, up) ==
  /\ ~crashed
  /\ th[t].pc = "init"
  /\ \E size \in {CallSize(th[t])} :
     \E a \in {initObject(mem, th[t].o, brk, TotalSize(size), _heapSize,
                          th[t].o = SbrkFailed, fault)} :
     \E r \in {IF th[t].op = "realloc"
               THEN reallocBody(a, th[t].a1, size, fault, up)
               ELSE IF th[t].op = "calloc"
               THEN callocBody(a, size, fault) @@ [copied |-> 0]
               ELSE a @@ [copied |-> 0]} :
       /\ mem' = r.mem
       /\ crashed' = r.crashed
       /\ live' = IF r.crashed THEN live
                  ELSE live \cup {[p |-> r.ret,
                                   n |-> IF th[t].op = "calloc"
                                         THEN th[t].a1 * th[t].a2 ELSE size]}
       /\ last' = [op |-> th[t].op, a1 |-> th[t].a1, a2 |-> th[t].a2,
                   ret |-> r.ret, failed |-> r.failed, copied |-> r.copied]
       /\ th' = [th EXCEPT ![t] = Idle]
  /\ UNCHANGED <<brk, _heapSize, _initialized, _mallocCalls, _freeCalls,
                 _reallocCalls, _callocCalls, issued, cvars, ctvars>>

\* Arguments of the threads' calls.
TSizes == {1, Mod - 1}

NextMT ==
  \/ \E t \in Threads, size \in TSizes : TCall(t, "malloc", size, 0)
  \/ \E t \in Threads, ptr \in {NULL} \cup {l.p : l \in live} :
       TCall(t, "free", ptr, 0)
  \/ \E t \in Threads, ptr \in {NULL} \cup {l.p : l \in live}, size \in TSizes :
       TCall(t, "realloc", ptr, size)
  \/ \E t \in Threads : TCall(t, "calloc", 3, 3)
  \/ \E t \in Threads : TIncLoad(t)
  \/ \E t \in Threads : TIncStore(t)
  \/ \E t \in Threads : TFree(t)
  \/ \E t \in Threads : THeapSizeLoad(t)
  \/ \E t \in Threads : THeapSizeStore(t)
  \/ \E t \in Threads, oom \in BOOLEAN : TSbrk(t, oom)
  \/ \E t \in Threads, fault \in BOOLEAN, up \in BOOLEAN : TFinish(t, fault, up)

\* ------------------------------------------------------------ threads, malloc.c
CIdle == [pc |-> "idle", size |-> 0, block |-> NULL, last |-> NULL, calls |-> 0]

CTInit ==
  /\ cth = [t \in Threads |-> CIdle]
  /\ cheld = {}

\* Size the threads ask for.
CTSize == 4

CTCalls == cth[1].calls + cth[2].calls

\* A thread enters malloc(size), size > 0.
CTCall(t, size) ==
  /\ chalt = "run"
  /\ cth[t].pc = "idle"
  /\ CTCalls < MaxCalls
  /\ cth' = [cth EXCEPT ![t].pc = "entry", ![t].size = size,
                        ![t].calls = @ + 1]
  /\ UNCHANGED <<cvars, cheld, avars, tvars>>

\* if (!global_base): the first call goes to request_space(NULL, size), a
\* later one to find_free_block.
CTEntry(t) ==
  /\ chalt = "run"
  /\ cth[t].pc = "entry"
  /\ cth' = [cth EXCEPT ![t].pc = IF global_base = NULL THEN "first" ELSE "find",
                        ![t].last = NULL]
  /\ UNCHANGED <<cvars, cheld, avars, tvars>>

\* last = global_base; block = find_free_block(&last, size)
CTFind(t, fault) ==
  /\ chalt = "run"
  /\ cth[t].pc = "find"
  /\ \E f \in {find_free_block(cmem, cur_brk, global_base, global_base,
                               cth[t].size, fault, CMaxHeap)} :
       /\ chalt' = IF f.st = "ok" THEN "run" ELSE f.st
       /\ cth' = [cth EXCEPT ![t].pc = IF f.block = NULL THEN "later" ELSE "reuse",
                             ![t].block = f.block, ![t].last = f.last]
  /\ UNCHANGED <<cur_brk, cmem, global_base, clive, clast, cheld, avars, tvars>>

\* request_space: block = sbrk(0)
CTSbrk0(t) ==
  /\ chalt = "run"
  /\ cth[t].pc \in {"first", "later"}
  /\ cth' = [cth EXCEPT ![t].block = c_sbrk(cur_brk, 0, FALSE).ret,
                        ![t].pc = IF cth[t].pc = "first" THEN "grow1" ELSE "grow"]
  /\ UNCHANGED <<cvars, cheld, avars, tvars>>

\* request_space: request = sbrk(size + META_SIZE)
CTGrow(t, refuse) ==
  /\ chalt = "run"
  /\ cth[t].pc \in {"grow1", "grow"}
  /\ cur_brk' = c_sbrk(cur_brk, Wrap(cth[t].size + META_SIZE), refuse).brk
  /\ cth' = [cth EXCEPT ![t].pc = IF cth[t].pc = "grow1" THEN "link1" ELSE "link"]
  /\ UNCHANGED <<cmem, global_base, chalt, clive, clast, cheld, avars, tvars>>

\* request_space: last->next = block and the stores into the new header;
\* then, on the first call, global_base = block; return block + 1.
CTLink(t, fault) ==
  /\ chalt = "run"
  /\ cth[t].pc \in {"link1", "link"}
  /\ \E ok \in {/\ cth[t].last = NULL
                   \/ Goes(cth[t].last + NextOff, IntBytes, cur_brk, CLimit, fault)
                /\ Goes(cth[t].block, META_SIZE, cur_brk, CLimit, fault)} :
       /\ chalt' = IF ok THEN "run" ELSE "fault"
       /\ cmem' = IF ok
                  THEN StoreNewBlock(cmem, cth[t].last, cth[t].block, cth[t].size)
                  ELSE cmem
       /\ global_base' = IF ok /\ cth[t].pc = "link1" THEN cth[t].block
                         ELSE global_base
       /\ cheld' = IF ok
                   THEN cheld \cup {[t |-> t, p |-> cth[t].block + META_SIZE,
                                     n |-> cth[t].size]}
                   ELSE cheld
       /\ cth' = [cth EXCEPT ![t].pc = "idle"]
  /\ UNCHANGED <<cur_brk, clive, clast, avars, tvars>>

\* The found block is taken: block->free = 0; block->magic = 0x77777777;
\* return block + 1.
CTReuse(t, fault) ==
  /\ chalt = "run"
  /\ cth[t].pc = "reuse"
  /\ \E ok \in {Goes(cth[t].block + FreeOff, 2 * IntBytes, cur_brk, CLimit, fault)} :
       /\ chalt' = IF ok THEN "run" ELSE "fault"
       /\ cmem' = IF ok THEN StoreFreeMagic(cmem, cth[t].block, 0, MagicReused)
                  ELSE cmem
       /\ cheld' = IF ok
                   THEN cheld \cup {[t |-> t, p |-> cth[t].block + META_SIZE,
                                     n |-> cth[t].size]}
                   ELSE cheld
       /\ cth' = [cth EXCEPT ![t].pc = "idle"]
  /\ UNCHANGED <<cur_brk, global_base, clive, clast, avars, tvars>>

\* A thread frees an allocation it holds.
CTFree(t, h, fault) ==
  /\ chalt = "run"
  /\ cth[t].pc = "idle"
  /\ CTCalls < MaxCalls
  /\ h \in cheld
  /\ h.t = t
  /\ \E ok \in {Goes(h.p - META_SIZE + FreeOff, 2 * IntBytes, cur_brk, CLimit, fault)} :
       /\ chalt' = IF ok THEN "run" ELSE "fault"
       /\ cmem' = IF ok THEN StoreFreeMagic(cmem, h.p - META_SIZE, 1, MagicFreed)
                  ELSE cmem
       /\ cheld' = IF ok THEN cheld \ {h} ELSE cheld
       /\ cth' = [cth EXCEPT ![t].calls = @ + 1]
  /\ UNCHANGED <<cur_brk, global_base, clive, clast, avars, tvars>>

NextCMT ==
  \/ \E t \in Threads : CTCall(t, CTSize)
  \/ \E t \in Threads : CTEntry(t)
  \/ \E t \in Threads, fault \in BOOLEAN : CTFind(t, fault)
  \/ \E t \in Threads : CTSbrk0(t)
  \/ \E t \in Threads, refuse \in BOOLEAN : CTGrow(t, refuse)
  \/ \E t \in Threads, fault \in BOOLEAN : CTLink(t, fault)
  \/ \E t \in Threads, fault \in BOOLEAN : CTReuse(t, fault)
  \/ \E t \in Threads, h \in cheld, fault \in BOOLEAN : CTFree(t, h, fault)

\* ------------------------------------------------------------ specifications
Init == AInit /\ CInit /\ TInit /\ CTInit

\* The Allocator of MyMalloc.cc, one call at a time.
Spec == Init /\ [][Next]_vars

\* malloc.c, one call at a time.
SpecC == Init /\ [][NextC]_vars

\* The Allocator of MyMalloc.cc called by NThreads threads, statement by
\* statement.
SpecMT == Init /\ [][NextMT]_vars

\* malloc.c called by NThreads threads, statement by statement.
SpecCMT == Init /\ [][NextCMT]_vars

\* One test program driving both allocators with ordinary requests that
\* the OS grants: malloc and free of MyMalloc.cc, malloc and free of malloc.c.
NextBoth ==
  \/ \E size \in {1} : Malloc(size, FALSE, FALSE)
  \/ \E ptr \in {NULL} \cup {l.p : l \in live} : Free(ptr)
  \/ \E size \in {4} : CMalloc(size, FALSE, FALSE)
  \/ \E ptr \in {NULL} \cup clive, fault \in BOOLEAN : CFree(ptr, fault)

SpecBoth == Init /\ [][NextBoth]_vars

\* ------------------------------------------------------------ heap walk
\* x rounded up to a multiple of 8, in unbounded arithmetic.
AlignUp8(x) == ((x + 7) \div 8) * 8

\* The _objectSize stored in the header at address a (a header that does
\* not lie inside the mappable segment has no size).
StoredSize(m, a) ==
  IF a >= HeapBase /\ a + HeaderSize <= HeapLimit THEN Load(m, a + FlagsSlot) ELSE 0

\* Walking from address a by each header's stored size ends exactly at the
\* break b: every block has a positive size and the sizes add up to the span.
RECURSIVE WalkReaches(_, _, _)
WalkReaches(m, a, b) ==
  IF a = b THEN TRUE
  ELSE IF a > b \/ StoredSize(m, a) = 0 THEN FALSE
  ELSE WalkReaches(m, a + StoredSize(m, a), b)

\* C1: after calls that returned, walking the heap from its start by the
\* stored sizes visits contiguous, non-overlapping blocks whose sizes sum
\* to the heap span.
DisjointCoverage == ~crashed => WalkReaches(mem, HeapBase, brk)

\* C2: a malloc that directly follows the free of a block of size S and
\* needs no more than S succeeds and leaves the heap size as it was.
Reuse ==
  [][ ( /\ last.op = "free"
        /\ last.a1 # NULL
        /\ last'.op = "malloc"
        /\ AlignUp8(last'.a1 + HeaderSize) <= StoredSize(mem, last.a1 - HeaderSize) )
      => ( /\ ~crashed'
           /\ last'.ret # NULL
           /\ brk' = brk
           /\ _heapSize' = _heapSize ) ]_vars

\* C5: when sbrk fails, the call returns null, the process lives on, and
\* the heap size counter, the break and every byte of the heap are unchanged.
ExhaustionReturnsNull ==
  [][ last'.failed
      => ( /\ ~crashed'
           /\ last'.ret = NULL
           /\ _heapSize' = _heapSize
           /\ brk' = brk
           /\ mem' = mem ) ]_vars

\* C8: a calloc whose product nelem * elsize does not fit in size_t returns
\* null and allocates nothing.
CallocOverflowFails ==
  [][ (last'.op = "calloc" /\ last'.a1 * last'.a2 >= Mod)
      => ( /\ ~crashed'
           /\ last'.ret = NULL
           /\ brk' = brk
           /\ mem' = mem
           /\ live' = live ) ]_vars

\* C9: objectSize of the pointer malloc(s) returned is
\* align8(s + headerSize) - headerSize, and not less than s.
SizeRoundTrip ==
  (last.op = "malloc" /\ ~crashed)
  => ( /\ objectSize(mem, last.ret) = AlignUp8(last.a1 + HeaderSize) - HeaderSize
       /\ objectSize(mem, last.ret) >= last.a1 )

\* The smaller of two numbers.
Min(x, y) == IF x < y THEN x ELSE y

\* C10: realloc(p, n) of a live p with payload size m returns q whose first
\* min(m, n) bytes are those p had; the copy stays inside both payloads.
DataPreservation ==
  [][ (last'.op = "realloc" /\ last'.a1 # NULL /\ ~crashed')
      => LET p == last'.a1
             q == last'.ret
             m == objectSize(mem, p)
             k == Min(m, last'.a2)
         IN /\ p + k <= HeapLimit
            /\ q + k <= HeapLimit
            /\ \A i \in 0 .. (k - 1) : ByteAt(mem', q + i) = ByteAt(mem, p + i)
            /\ last'.copied <= m
            /\ last'.copied <= objectSize(mem', q) ]_vars

\* ------------------------------------------------------------ malloc.c list
\* The blocks reached from address b by following next, in list order.
RECURSIVE ListFrom(_, _, _)
ListFrom(m, b, fuel) ==
  IF b = NULL \/ fuel = 0 \/ b < HeapBase \/ b + META_SIZE > CLimit THEN <<>>
  ELSE CHOOSE l \in {<<b>> \o ListFrom(m, n, fuel - 1) : n \in {MetaNext(m, b)}} : TRUE

BlockList == ListFrom(cmem, global_base, CMaxHeap)

\* Block y starts where block x ends.
Adjacent(m, x, y) == y = x + META_SIZE + MetaSize(m, x)

\* C3: when a free has completed, no two physically adjacent blocks are
\* both free.
NoAdjacentFree ==
  (chalt = "run" /\ clast.op = "free")
  => \A i, j \in 1 .. Len(BlockList) :
       ~ ( /\ Adjacent(cmem, BlockList[i], BlockList[j])
           /\ MetaFree(cmem, BlockList[i]) # 0
           /\ MetaFree(cmem, BlockList[j]) # 0 )

\* Blocks A, B, C of one size s lie one after the other, A and B free and
\* C allocated, and n is larger than s and at most 2s.
FreedPair(n) ==
  \E i \in 1 .. (Len(BlockList) - 2) :
    LET A == BlockList[i]
        B == BlockList[i + 1]
        C == BlockList[i + 2]
    IN /\ Adjacent(cmem, A, B)
       /\ Adjacent(cmem, B, C)
       /\ MetaSize(cmem, A) = MetaSize(cmem, B)
       /\ MetaSize(cmem, B) = MetaSize(cmem, C)
       /\ MetaFree(cmem, A) # 0
       /\ MetaFree(cmem, B) # 0
       /\ MetaFree(cmem, C) = 0
       /\ n > MetaSize(cmem, A)
       /\ n <= 2 * MetaSize(cmem, A)

\* C4: with A and B of three equal adjacent blocks released, a malloc of
\* more than either and at most both succeeds and does not grow the heap.
CoalescedReuse ==
  [][ (chalt = "run" /\ clast'.op = "malloc" /\ FreedPair(ToSigned(clast'.a1)))
      => ( /\ chalt' = "run"
           /\ clast'.ret # NULL
           /\ cur_brk' = cur_brk ) ]_vars

\* ------------------------------------------------------------ threads
\* No thread is inside a call.
Quiescent == \A t \in Threads : th[t].pc = "idle"

\* C7: once the threads' calls have returned, each counter equals the
\* number of calls issued to its entry point.
ExactCounters ==
  (Quiescent /\ ~crashed)
  => ( /\ _mallocCalls = issued.malloc
       /\ _freeCalls = issued.free
       /\ _reallocCalls = issued.realloc
       /\ _callocCalls = issued.calloc )

\* Two allocations share a byte of their payloads (or start at one address).
Overlap(x, y) ==
  \/ x.p = y.p
  \/ (x.p < y.p + y.n /\ y.p < x.p + x.n)

\* C6: allocations that are live at the same time never overlap.
NoDuplicateBlocks ==
  \A x, y \in cheld : x # y => ~Overlap(x, y)

\* ------------------------------------------------------------ calloc
\* The block whose payload starts at q, as its header describes it:
\* addresses o .. o + total - 1.
InBlock(m, q, x) ==
  /\ x >= q - HeaderSize
  /\ x < q - HeaderSize + StoredSize(m, q - HeaderSize)

\* C11: when calloc(c, e) returns a block, each of the c * e bytes of its
\* payload lies in the block and is zero, and no byte outside the block
\* has been written.
ZeroFill ==
  [][ (last'.op = "calloc" /\ ~crashed' /\ last'.ret # NULL)
      => LET q == last'.ret
             n == last'.a1 * last'.a2
         IN /\ q + n <= HeapLimit
            /\ \A i \in 0 .. (n - 1) :
                 InBlock(mem', q, q + i) /\ ByteAt(mem', q + i) = 0
            /\ \A r \in DOMAIN mem : \A c \in Cols :
                 InBlock(mem', q, AddrOf(r, c)) \/ mem'[r][c] = mem[r][c] ]_vars

\* ------------------------------------------------------------ realloc
\* C12: realloc(p, 0) of a live p leaves the heap that free(p) leaves: the
\* same blocks, the same break and the same heap size.
ReallocZeroIsFree ==
  [][ (last'.op = "realloc" /\ last'.a1 # NULL /\ last'.a2 = 0)
      => ( /\ ~crashed'
           /\ mem' = freeObject(mem, last'.a1)
           /\ brk' = brk
           /\ _heapSize' = _heapSize ) ]_vars

\* C13: realloc(NULL, n) returns the pointer and leaves the heap that
\* malloc(n) does from the same state (under the same answer of the OS),
\* copies nothing and releases none of the caller's blocks.
ReallocNullIsMalloc ==
  [][ (last'.op = "realloc" /\ last'.a1 = NULL)
      => /\ \E oom \in BOOLEAN, fault \in BOOLEAN :
              \E a \in {allocateObject(last'.a2, oom, fault)} :
                /\ last'.ret = a.ret
                /\ mem' = a.mem
                /\ brk' = a.brk
                /\ _heapSize' = a.heapSize
                /\ crashed' = a.crashed
         /\ last'.copied = 0
         /\ live \subseteq live' ]_vars

\* realloc(NULL, n) has returned a block while the caller holds another.
ReallocNullReturned ==
  /\ last.op = "realloc"
  /\ last.a1 = NULL
  /\ last.ret # NULL
  /\ ~crashed
  /\ \E l \in live : l.p # last.ret

\* ------------------------------------------------------------ free(NULL)
\* C14: free(NULL) changes no byte of the heap (no header, no state flag,
\* no list link), not the break and not the heap size, and cannot fault; this
\* holds for free of MyMalloc.cc and for free of malloc.c.
FreeNullNoOp ==
  [][ /\ (last'.op = "free" /\ last'.a1 = NULL)
         => ( /\ mem' = mem
              /\ brk' = brk
              /\ _heapSize' = _heapSize
              /\ live' = live
              /\ crashed' = crashed )
      /\ (clast'.op = "free" /\ clast'.a1 = NULL)
         => ( /\ cmem' = cmem
              /\ cur_brk' = cur_brk
              /\ global_base' = global_base
              /\ clive' = clive
              /\ chalt' = chalt ) ]_vars

\* free(NULL) has been the last call to both allocators, each with blocks
\* in its heap, in malloc.c an allocated one and a free one.
FreeNullCalled ==
  /\ last.op = "free"
  /\ last.a1 = NULL
  /\ live # {}
  /\ ~crashed
  /\ clast.op = "free"
  /\ clast.a1 = NULL
  /\ clive # {}
  /\ chalt = "run"
  /\ \E i \in 1 .. Len(BlockList) : MetaFree(cmem, BlockList[i]) # 0

\* ------------------------------------------------------------ malloc(0)
\* C15: malloc(0) returns null, creates no block and does not grow the heap.
MallocZeroFails ==
  [][ (last'.op = "malloc" /\ last'.a1 = 0)
      => ( /\ last'.ret = NULL
           /\ mem' = mem
           /\ brk' = brk
           /\ _heapSize' = _heapSize ) ]_vars

\* ------------------------------------------------------------ _heapSize
\* C16: _heapSize is the number of bytes sbrk has granted so far, the
\* distance of the break from the heap start; a refused request adds nothing.
HeapSizeAccounting == _heapSize = brk - HeapBase

\* ------------------------------------------------------------ first fit
\* The headers met when walking from address a by the stored sizes up to
\* the break b.
RECURSIVE WalkSet(_, _, _)
WalkSet(m, a, b) ==
  IF a >= b \/ StoredSize(m, a) = 0 THEN {}
  ELSE {a} \cup WalkSet(m, a + StoredSize(m, a), b)

\* The blocks of the heap that the caller has released (it holds no pointer
\* to them) and that are large enough for a request of n bytes.
Fitting(n) ==
  {o \in WalkSet(mem, HeapBase, brk) :
     /\ \A l \in live : l.p # o + HeaderSize
     /\ StoredSize(mem, o) >= AlignUp8(n + HeaderSize)}

\* C17: when a released block fits the request, malloc returns the fitting
\* block of the lowest address and does not grow the heap.
FirstFit ==
  [][ (last'.op = "malloc" /\ ~crashed /\ Fitting(last'.a1) # {})
      => ( /\ ~crashed'
           /\ last'.ret - HeaderSize \in Fitting(last'.a1)
           /\ \A o \in Fitting(last'.a1) : last'.ret <= o + HeaderSize
           /\ brk' = brk ) ]_vars

\* ------------------------------------------------------------ splitting
\* C18: when malloc reuses a free block whose payload exceeds the request by
\* a header or more, the block handed out gets exactly the requested size
\* and the rest becomes a free block that starts right after it.
Splitting ==
  [][ (chalt = "run" /\ chalt' = "run" /\ clast'.op = "malloc" /\ clast'.ret # NULL
        /\ cur_brk' = cur_brk
        /\ MetaFree(cmem, clast'.ret - META_SIZE) # 0
        /\ MetaSize(cmem, clast'.ret - META_SIZE) >= ToSigned(clast'.a1) + META_SIZE)
      => LET b == clast'.ret - META_SIZE
             n == ToSigned(clast'.a1)
             rest == b + META_SIZE + n
         IN /\ MetaSize(cmem', b) = n
            /\ MetaFree(cmem', rest) # 0
            /\ MetaSize(cmem', rest) = MetaSize(cmem, b) - n - META_SIZE ]_vars

\* ------------------------------------------------------------ block sizes
\* C19: the size stored in the header of a block that malloc, calloc or
\* realloc returned is positive, a multiple of 8 and at least a header's size.
BlockSizeWellFormed ==
  (last.op \in {"malloc", "calloc", "realloc"} /\ ~crashed /\ last.ret # NULL)
  => LET s == Load(mem, last.ret - HeaderSize + FlagsSlot)
     IN /\ s > 0
        /\ s % 8 = 0
        /\ s >= HeaderSize

\* ------------------------------------------------------------ malloc.c list shape
\* The list from global_base ends in NULL, holds no block twice, is in
\* physical order, and holds every block the caller has a pointer to.
ListShape ==
  chalt = "run"
  => \E L \in {BlockList} :
     /\ Len(L) < CMaxHeap
     /\ IF L = <<>> THEN global_base = NULL
        ELSE MetaNext(cmem, L[Len(L)]) = NULL
     /\ \A i, j \in 1 .. Len(L) : i < j => L[i] # L[j]
     /\ \A i \in 1 .. (Len(L) - 1) : Adjacent(cmem, L[i], L[i + 1])
     /\ \A p \in clive : \E i \in 1 .. Len(L) : L[i] = p - META_SIZE

\* A step of the process keeps every block in the list and at its place, a
\* malloc that returns a pointer has its block in the list, and a free, or a
\* malloc that reuses a fitting free block, changes no size and no next link.
ListStep ==
  (chalt = "run" /\ chalt' = "run")
  => \E L \in {BlockList} : \E M \in {BlockList'} :
     \E b \in {clast'.ret - META_SIZE} :
        /\ Len(L) <= Len(M)
        /\ \A i \in 1 .. Len(L) : M[i] = L[i]
        /\ (clast'.op = "malloc" /\ clast'.ret # NULL)
           => \E i \in 1 .. Len(M) : M[i] = b
        /\ ( \/ clast'.op = "free"
             \/ /\ clast'.op = "malloc"
                /\ clast'.ret # NULL
                /\ \E i \in 1 .. Len(L) : L[i] = b
                /\ MetaFree(cmem, b) # 0
                /\ MetaSize(cmem, b) >= ToSigned(clast'.a1) )
           => \A i \in 1 .. Len(L) :
                /\ MetaSize(cmem', L[i]) = MetaSize(cmem, L[i])
                /\ MetaNext(cmem', L[i]) = MetaNext(cmem, L[i])

\* C20: after any sequence of malloc and free calls of malloc.c the list from
\* global_base is acyclic, NULL-terminated, in physical order and holds every
\* block created so far exactly once; free and reuse change no size or link.
\* (The list is empty in the initial state; every later state is the second
\* state of a step.)
ListWellFormed == [][ListStep /\ ListShape']_vars

\* The list holds three blocks or more, a free one among them, and the last
\* malloc reused the first block.
ListReused ==
  /\ chalt = "run"
  /\ Len(BlockList) >= 3
  /\ \E i \in 2 .. Len(BlockList) : MetaFree(cmem, BlockList[i]) # 0
  /\ clast.op = "malloc"
  /\ clast.ret = BlockList[1] + META_SIZE

====
